---------------------------- MODULE Spec2Model ----------------------------
(***************************************************************************)
(* Model of repology-outdated-notify.py: the RepologyPoller (the seen_ids  *)
(* deque and the check_for_updates generator), the two notification        *)
(* senders and the polling loop of main with its exponential backoff.      *)
(*                                                                         *)
(* One cycle of main's loop is modelled step by step, because the          *)
(* generator is lazy: the loop body (the two senders) runs between two     *)
(* resumptions of check_for_updates.  pc is the position of the control:   *)
(*   "poll"     top of `while True`, before check_for_updates is started   *)
(*   "gen"      inside the generator's `for entry in feed.entries`         *)
(*   "email"    update yielded, before `if args.email`                     *)
(*   "github"   before `if args.github_repo`                               *)
(*   "except"   an exception is propagating to main's `except Exception`   *)
(*   "backoff"  in the handler, before time.sleep(backoff_time)            *)
(*   "interval" after a successful cycle, before time.sleep(args.interval) *)
(***************************************************************************)
EXTENDS Naturals, Sequences, FiniteSets

-----------------------------------------------------------------------------
(* Bounds of the model.                                                    *)

\* Capacity of the seen_ids deque.  The program builds it with maxlen=500
\* (DequeMaxLen below); the polling model runs it scaled down, so that the
\* window fills up and evicts within feeds of a few entries.
maxlen == 2

\* Number of distinct entry ids the feed can carry.
NumIds == 3

\* Longest feed (number of entries) a poll can return.
MaxFeedLen == 2

\* Most consecutive failed cycles the environment causes (fetch errors,
\* malformed entries, sender exceptions) in the polling specifications.
MaxRetry == 2

\* The same in the backoff specification, whose feeds are small: the delay
\* reaches its cap at the 7th consecutive failure.
MaxBackoffRetry == 8

\* Longest feed of the end-to-end specification: a baseline feed and added
\* entries that together overflow the window.
MaxE2ELen == 3

\* Most cycles on an empty feed the observer of empty feeds counts.
MaxEmpties == 2

\* Number of distinct ids recorded in the specification of the deque at the
\* program's capacity.
MaxRecorded == 502

-----------------------------------------------------------------------------
(* Program constants.                                                      *)

\* collections.deque(maxlen=500)
DequeMaxLen == 500

\* exponential_backoff(30, retry_attempt)
BackoffBase == 30

\* min(..., 3600)
BackoffCap == 3600

\* --interval, default=300
interval == 300

-----------------------------------------------------------------------------
(* Values.                                                                 *)

Range(s) == {s[k] : k \in 1..Len(s)}

Min(a, b) == IF a <= b THEN a ELSE b

RECURSIVE Pow2(_)
Pow2(n) == IF n = 0 THEN 1 ELSE 2 * Pow2(n - 1)

IdPool == <<"id1", "id2", "id3", "id4", "id5", "id6">>

Ids == {IdPool[k] : k \in 1..NumIds}

\* A title is the sequence of its maximal runs of non-whitespace characters
\* and of the single whitespace characters between them.
Whitespace == {" ", "\t", "\n"}

GoodTitle == <<"foo", " ", "1.0", " ", "is", " ", "outdated", " ", "by", " ", "2.0">>

BadTitle == <<"foo", " ", "is", " ", "outdated">>

\* re.compile(r"^(\S+) (\S+) is outdated by (\S+)$").match(title): the three
\* groups, or <<>> for None.  `$` also matches before one trailing newline.
title_re_match(title) ==
    LET t == IF Len(title) = 12 /\ title[12] = "\n" THEN SubSeq(title, 1, 11) ELSE title
    IN  IF /\ Len(t) = 11
           /\ \A k \in {1, 3, 11} : t[k] \notin Whitespace
           /\ \A k \in {2, 4, 6, 8, 10} : t[k] = " "
           /\ t[5] = "is" /\ t[7] = "outdated" /\ t[9] = "by"
        THEN <<t[1], t[3], t[11]>>
        ELSE <<>>

LinkOf(id) == <<"https://repology.org/", id>>

\* A feed entry is a record holding the attributes the entry has; an
\* attribute the feed did not give is absent from the record's domain.
HasAttr(entry, attr) == attr \in DOMAIN entry

\* Entries with every attribute: outdated with a title of the expected
\* format, outdated with another title, and of another category.
FullEntries ==
    {[id |-> d, category |-> k[1], title |-> k[2], link |-> LinkOf(d)] :
        d \in Ids,
        k \in {<<"outdated", GoodTitle>>, <<"outdated", BadTitle>>, <<"resolved", GoodTitle>>}}

\* Entries the feed gave no link, and an entry it gave no id.
NoLinkEntries == {[id |-> d, category |-> "outdated", title |-> GoodTitle] : d \in Ids}

NoIdEntries == {[category |-> "outdated", title |-> GoodTitle, link |-> LinkOf("none")]}

Entries == FullEntries \cup NoLinkEntries \cup NoIdEntries

FeedsOf(E, n) == UNION {[1..k -> E] : k \in 0..n}

\* The feeds of the polling specification; `good` are those whose entries
\* have every attribute check_for_updates reads.
Feeds == [any |-> FeedsOf(Entries, MaxFeedLen), good |-> FeedsOf(FullEntries, MaxFeedLen)]

Repository == "nixpkgs_unstable"

\* The feeds of the backoff specification: empty, one outdated entry, one
\* entry without an id.
BackoffFeeds ==
    LET ok == {[id |-> d, category |-> "outdated", title |-> GoodTitle, link |-> LinkOf(d)] :
                  d \in {IdPool[1], IdPool[2]}}
    IN  [any |-> FeedsOf(ok \cup NoIdEntries, 1), good |-> FeedsOf(ok, 1)]

NoUpdate ==
    [repository |-> "", package |-> "", old_version |-> "", new_version |-> "",
     details_url |-> <<>>]

NotSent == [email |-> "none", github |-> "none"]

GithubResponses == {"201", "401", "403", "500", "RequestException", "Exception"}


-----------------------------------------------------------------------------
(* Pure functions of the program.                                          *)

\* A deque without maxlen.
deque_append_unbounded(dq, cap, x) == Append(dq, x)

\* A full deque discarding at the end the item is appended to.
deque_append_evict_newest(dq, cap, x) ==
    IF cap = 0 THEN <<>>
    ELSE IF Len(dq) >= cap THEN Append(SubSeq(dq, 1, Len(dq) - 1), x)
    ELSE Append(dq, x)

\* appendleft in place of append.
deque_appendleft(dq, cap, x) ==
    IF cap = 0 THEN <<>>
    ELSE IF Len(dq) >= cap THEN <<x>> \o SubSeq(dq, 1, Len(dq) - 1)
    ELSE <<x>> \o dq

\* collections.deque(maxlen=cap).append(x): when the deque is full the item
\* at the opposite (left) end is discarded.
deque_append(dq, cap, x) ==
    IF cap = 0 THEN <<>>
    ELSE IF Len(dq) >= cap THEN Append(Tail(dq), x)
    ELSE Append(dq, x)

\* exponential_backoff without its cap.
exponential_backoff_uncapped(base, attempt) == base * Pow2(attempt)

\* def exponential_backoff(base, attempt): min(base * (2**attempt), 3600)
exponential_backoff(base, attempt) == Min(base * Pow2(attempt), BackoffCap)

\* classify with first_run left out: the first cycle reports every entry.
classify_no_first_run(entry, seen, first) ==
    IF ~HasAttr(entry, "id") THEN [exit |-> "raise", record |-> FALSE]
    ELSE IF entry.id \in Range(seen) THEN [exit |-> "seen", record |-> FALSE]
    ELSE IF ~HasAttr(entry, "category") THEN [exit |-> "raise", record |-> TRUE]
    ELSE IF entry.category # "outdated" THEN [exit |-> "category", record |-> TRUE]
    ELSE IF ~HasAttr(entry, "title") THEN [exit |-> "raise", record |-> TRUE]
    ELSE IF title_re_match(entry.title) = <<>> THEN [exit |-> "title", record |-> TRUE]
    ELSE IF ~HasAttr(entry, "link") THEN [exit |-> "raise", record |-> TRUE]
    ELSE [exit |-> "yield", record |-> TRUE]

\* classify with the test on seen_ids left out.
classify_no_seen(entry, seen, first) ==
    IF ~HasAttr(entry, "id") THEN [exit |-> "raise", record |-> FALSE]
    ELSE IF first THEN [exit |-> "baseline", record |-> TRUE]
    ELSE IF ~HasAttr(entry, "category") THEN [exit |-> "raise", record |-> TRUE]
    ELSE IF entry.category # "outdated" THEN [exit |-> "category", record |-> TRUE]
    ELSE IF ~HasAttr(entry, "title") THEN [exit |-> "raise", record |-> TRUE]
    ELSE IF title_re_match(entry.title) = <<>> THEN [exit |-> "title", record |-> TRUE]
    ELSE IF ~HasAttr(entry, "link") THEN [exit |-> "raise", record |-> TRUE]
    ELSE [exit |-> "yield", record |-> TRUE]

\* classify with `m is None` left untested: m.group(1) raises.
classify_title_raises(entry, seen, first) ==
    IF ~HasAttr(entry, "id") THEN [exit |-> "raise", record |-> FALSE]
    ELSE IF entry.id \in Range(seen) THEN [exit |-> "seen", record |-> FALSE]
    ELSE IF first THEN [exit |-> "baseline", record |-> TRUE]
    ELSE IF ~HasAttr(entry, "category") THEN [exit |-> "raise", record |-> TRUE]
    ELSE IF entry.category # "outdated" THEN [exit |-> "category", record |-> TRUE]
    ELSE IF ~HasAttr(entry, "title") THEN [exit |-> "raise", record |-> TRUE]
    ELSE IF title_re_match(entry.title) = <<>> THEN [exit |-> "raise", record |-> TRUE]
    ELSE IF ~HasAttr(entry, "link") THEN [exit |-> "raise", record |-> TRUE]
    ELSE [exit |-> "yield", record |-> TRUE]

\* classify with seen_ids.append moved after the filters.
classify_record_late(entry, seen, first) ==
    IF ~HasAttr(entry, "id") THEN [exit |-> "raise", record |-> FALSE]
    ELSE IF entry.id \in Range(seen) THEN [exit |-> "seen", record |-> FALSE]
    ELSE IF first THEN [exit |-> "baseline", record |-> TRUE]
    ELSE IF ~HasAttr(entry, "category") THEN [exit |-> "raise", record |-> FALSE]
    ELSE IF entry.category # "outdated" THEN [exit |-> "category", record |-> FALSE]
    ELSE IF ~HasAttr(entry, "title") THEN [exit |-> "raise", record |-> FALSE]
    ELSE IF title_re_match(entry.title) = <<>> THEN [exit |-> "title", record |-> FALSE]
    ELSE IF ~HasAttr(entry, "link") THEN [exit |-> "raise", record |-> FALSE]
    ELSE [exit |-> "yield", record |-> TRUE]

\* classify with the category test left out.
classify_no_category(entry, seen, first) ==
    IF ~HasAttr(entry, "id") THEN [exit |-> "raise", record |-> FALSE]
    ELSE IF entry.id \in Range(seen) THEN [exit |-> "seen", record |-> FALSE]
    ELSE IF first THEN [exit |-> "baseline", record |-> TRUE]
    ELSE IF ~HasAttr(entry, "title") THEN [exit |-> "raise", record |-> TRUE]
    ELSE IF title_re_match(entry.title) = <<>> THEN [exit |-> "title", record |-> TRUE]
    ELSE IF ~HasAttr(entry, "link") THEN [exit |-> "raise", record |-> TRUE]
    ELSE [exit |-> "yield", record |-> TRUE]

\* The body of `for entry in feed.entries` for one entry, as the way it
\* leaves the body:
\*   "raise"    an attribute the body reads is absent (AttributeError)
\*   "seen"     entry.id in self.seen_ids: continue
\*   "baseline" first_run: continue
\*   "category" entry.category != "outdated": continue
\*   "title"    title_re.match is None: logged, continue
\*   "yield"    an Update is yielded
\* and whether entry.id was appended to seen_ids on the way.
classify(entry, seen, first) ==
    IF ~HasAttr(entry, "id") THEN [exit |-> "raise", record |-> FALSE]
    ELSE IF entry.id \in Range(seen) THEN [exit |-> "seen", record |-> FALSE]
    ELSE IF first THEN [exit |-> "baseline", record |-> TRUE]
    ELSE IF ~HasAttr(entry, "category") THEN [exit |-> "raise", record |-> TRUE]
    ELSE IF entry.category # "outdated" THEN [exit |-> "category", record |-> TRUE]
    ELSE IF ~HasAttr(entry, "title") THEN [exit |-> "raise", record |-> TRUE]
    ELSE IF title_re_match(entry.title) = <<>> THEN [exit |-> "title", record |-> TRUE]
    ELSE IF ~HasAttr(entry, "link") THEN [exit |-> "raise", record |-> TRUE]
    ELSE [exit |-> "yield", record |-> TRUE]

\* Update(repository=..., package=m.group(1), old_version=m.group(2),
\*        new_version=m.group(3), details_url=entry.link)
make_update(entry) ==
    LET m == title_re_match(entry.title)
    IN  [repository |-> Repository, package |-> m[1], old_version |-> m[2],
         new_version |-> m[3], details_url |-> entry.link]

-----------------------------------------------------------------------------
(* State.                                                                  *)

VARIABLES
    args,           \* the parsed command line: which channels are configured
    seen_ids,       \* poller.seen_ids, oldest first
    retry_attempt,  \* main's consecutive-failure counter
    backoff_time,   \* the delay main computed in `except`, until it has slept it
    pc,             \* position of the control (see the head of the module)
    feed,           \* feed.entries, while the generator runs
    bozo,           \* feed.bozo: feedparser could not fetch or parse the document
    i,              \* index of the entry the generator handles next (0: not running)
    first_run,      \* the generator's first_run
    update,         \* the Update the loop body is dispatching
    \* History variables of every specification: they record what happened
    \* in the running cycle and steer nothing.
    sent,           \* what each sender did with `update`
    emitted,        \* indices into feed of the entries yielded in this cycle
    fails,          \* failed cycles since the last successful one
    \* History variables across cycles, each followed by the specifications
    \* that name its observer and left alone by the others.
    notified,       \* per id: 0 never yielded; k > 0: yielded, and k - 1 ids
                    \* were appended to seen_ids since (counted up to maxlen)
    prev_feed,      \* what the last fetch returned (for the end-to-end observer:
                    \* the feed of the baseline cycle that just ended)
    polls,          \* 0 before the first fetch; 2 when the last fetch returned
                    \* what the fetch before it returned; else 1
    steady,         \* a cycle on the present feed content ran to its end and
                    \* left every id of the feed in seen_ids
    baseline,       \* the ids listed by the first non-empty feed fetched
    base_done,      \* the last completed cycle was a first_run on a non-empty feed
    ext,            \* this cycle's feed is the baseline cycle's plus new ids
    empties,        \* cycles on a feed without entries that ran to their end
                    \* (counted up to MaxEmpties)
    recorded,       \* the ids appended to seen_ids in the running cycle
    dispatched,     \* indices into feed of the entries whose Update the loop
                    \* body of main has finished with, in the running cycle
    waited          \* how the last cycle ended ("none" before the first) and
                    \* the seconds main has slept since

progVars == <<args, seen_ids, retry_attempt, backoff_time, pc, feed, bozo, i, first_run, update>>

cycleVars == <<sent, emitted, fails>>

vars == <<progVars, cycleVars, notified, prev_feed, polls, steady, baseline, base_done, ext,
          empties, recorded, dispatched, waited>>

NoExt == [on |-> FALSE, base |-> {}]

\* RepologyPoller.__init__ and the start of main, for each configuration of
\* the two channels.
Init ==
    /\ args \in [email : BOOLEAN, github_repo : BOOLEAN]
    /\ seen_ids = <<>>
    /\ retry_attempt = 0
    /\ backoff_time = 0
    /\ pc = "poll"
    /\ feed = <<>>
    /\ bozo = FALSE
    /\ i = 0
    /\ first_run = FALSE
    /\ update = NoUpdate
    /\ sent = NotSent
    /\ emitted = <<>>
    /\ fails = 0
    /\ notified = [d \in Ids |-> 0]
    /\ prev_feed = <<>>
    /\ polls = 0
    /\ steady = FALSE
    /\ baseline = [set |-> FALSE, ids |-> {}]
    /\ base_done = FALSE
    /\ ext = NoExt
    /\ empties = 0
    /\ recorded = <<>>
    /\ dispatched = <<>>
    /\ waited = [cycle |-> "none", slept |-> 0]

-----------------------------------------------------------------------------
(* check_for_updates.                                                      *)

\* Fetch with first_run taken from the feed instead of seen_ids.
Fetch_first_run_of_feed(f) ==
    /\ pc = "poll"
    /\ feed' = f
    /\ bozo' = FALSE
    /\ first_run' = (Len(f) = 0)
    /\ i' = 1
    /\ pc' = "gen"
    /\ UNCHANGED <<args, seen_ids, retry_attempt, backoff_time, update, cycleVars>>

\* feedparser.parse returns the feed f; first_run is taken once, here.
Fetch(f) ==
    /\ pc = "poll"
    /\ feed' = f
    /\ bozo' = FALSE
    /\ first_run' = (Len(seen_ids) = 0)
    /\ i' = 1
    /\ pc' = "gen"
    /\ UNCHANGED <<args, seen_ids, retry_attempt, backoff_time, update, cycleVars>>

\* feedparser.parse could not reach the feed or parse the document: it
\* raises nothing, it returns a result without entries whose bozo flag is
\* set.  check_for_updates does not read the flag.
FetchBozo ==
    /\ pc = "poll"
    /\ feed' = <<>>
    /\ bozo' = TRUE
    /\ first_run' = (Len(seen_ids) = 0)
    /\ i' = 1
    /\ pc' = "gen"
    /\ UNCHANGED <<args, seen_ids, retry_attempt, backoff_time, update, cycleVars>>

\* The feed is any of pool.any; after r consecutive failed cycles the
\* environment lets the next cycle succeed: the feed is one of pool.good,
\* the feeds of pool.any that check_for_updates reads without an error.
FetchFeed(pool, r) ==
    \E f \in (IF retry_attempt < r THEN pool.any ELSE pool.good) : Fetch(f)

\* feedparser.parse raises: an error it does not turn into a bozo result.
FetchRaise(r) ==
    /\ pc = "poll"
    /\ retry_attempt < r
    /\ pc' = "except"
    /\ UNCHANGED <<args, bozo, seen_ids, retry_attempt, backoff_time, feed, i, first_run, update,
                   cycleVars>>

\* Classify collecting the Updates instead of yielding them one by one.
Classify_collecting(cap) ==
    /\ pc = "gen"
    /\ i <= Len(feed)
    /\ LET entry == feed[i]
           c == classify(entry, seen_ids, first_run)
       IN  /\ seen_ids' = IF c.record THEN deque_append(seen_ids, cap, entry.id)
                          ELSE seen_ids
           /\ IF c.exit = "raise"
              THEN /\ pc' = "except"
                   /\ UNCHANGED <<i, update, emitted>>
              ELSE IF c.exit = "yield"
              THEN /\ pc' = "gen"
                   /\ update' = make_update(entry)
                   /\ emitted' = Append(emitted, i)
                   /\ i' = i + 1
              ELSE /\ pc' = "gen"
                   /\ i' = i + 1
                   /\ UNCHANGED <<update, emitted>>
    /\ sent' = NotSent
    /\ UNCHANGED <<args, bozo, retry_attempt, backoff_time, feed, first_run, fails>>

\* One pass of the body of `for entry in feed.entries`, seen_ids being a
\* deque of capacity cap.
Classify(cap) ==
    /\ pc = "gen"
    /\ i <= Len(feed)
    /\ LET entry == feed[i]
           c == classify(entry, seen_ids, first_run)
       IN  /\ seen_ids' = IF c.record THEN deque_append(seen_ids, cap, entry.id)
                          ELSE seen_ids
           /\ IF c.exit = "raise"
              THEN /\ pc' = "except"
                   /\ UNCHANGED <<i, update, emitted>>
              ELSE IF c.exit = "yield"
              THEN /\ pc' = "email"
                   /\ update' = make_update(entry)
                   /\ emitted' = Append(emitted, i)
                   /\ i' = i + 1
              ELSE /\ pc' = "gen"
                   /\ i' = i + 1
                   /\ UNCHANGED <<update, emitted>>
    /\ sent' = NotSent
    /\ UNCHANGED <<args, bozo, retry_attempt, backoff_time, feed, first_run, fails>>

\* The generator is exhausted: the `for update in ...` loop of main ends and
\* main resets retry_attempt.
CycleDone ==
    /\ pc = "gen"
    /\ i > Len(feed)
    /\ retry_attempt' = 0
    /\ fails' = 0
    /\ pc' = "interval"
    /\ feed' = <<>>
    /\ i' = 0
    /\ update' = NoUpdate
    /\ sent' = NotSent
    /\ emitted' = <<>>
    /\ bozo' = FALSE
    /\ UNCHANGED <<args, seen_ids, backoff_time, first_run>>

-----------------------------------------------------------------------------
(* The body of main's loop: the two senders.                               *)

\* send_email_notification letting a failure of sendmail propagate.
send_email_notification_raising ==
    /\ pc = "email"
    /\ args.email
    /\ \E r \in {"sent", "failed"} :
          /\ sent' = [sent EXCEPT !.email = r]
          /\ pc' = IF r = "failed" THEN "except" ELSE "github"
    /\ UNCHANGED <<args, bozo, seen_ids, retry_attempt, backoff_time, feed, i, first_run, update,
                   emitted, fails>>

\* send_email_notification: every Exception is caught and logged.
send_email_notification ==
    /\ pc = "email"
    /\ args.email
    /\ \E r \in {"sent", "failed"} : sent' = [sent EXCEPT !.email = r]
    /\ pc' = "github"
    /\ UNCHANGED <<args, bozo, seen_ids, retry_attempt, backoff_time, feed, i, first_run, update,
                   emitted, fails>>

\* `if args.email:` is false.
SkipEmail ==
    /\ pc = "email"
    /\ ~args.email
    /\ pc' = "github"
    /\ UNCHANGED <<args, bozo, seen_ids, retry_attempt, backoff_time, feed, i, first_run, update,
                   cycleVars>>

\* send_github_notification without its except clause.
send_github_notification_uncaught(r) ==
    /\ pc = "github"
    /\ args.github_repo
    /\ \E resp \in GithubResponses :
          /\ resp = "Exception" => retry_attempt < r
          /\ sent' = [sent EXCEPT !.github = resp]
          /\ pc' = IF resp \in {"Exception", "RequestException"} THEN "except" ELSE "gen"
    /\ UNCHANGED <<args, bozo, seen_ids, retry_attempt, backoff_time, feed, i, first_run, update,
                   emitted, fails>>

\* send_github_notification: the status codes are logged, a
\* requests.RequestException is caught and logged, any other exception
\* propagates.
send_github_notification(r) ==
    /\ pc = "github"
    /\ args.github_repo
    /\ \E resp \in GithubResponses :
          /\ resp = "Exception" => retry_attempt < r
          /\ sent' = [sent EXCEPT !.github = resp]
          /\ pc' = IF resp = "Exception" THEN "except" ELSE "gen"
    /\ UNCHANGED <<args, bozo, seen_ids, retry_attempt, backoff_time, feed, i, first_run, update,
                   emitted, fails>>

\* `if args.github_repo:` is false.
SkipGithub ==
    /\ pc = "github"
    /\ ~args.github_repo
    /\ pc' = "gen"
    /\ UNCHANGED <<args, bozo, seen_ids, retry_attempt, backoff_time, feed, i, first_run, update,
                   cycleVars>>

-----------------------------------------------------------------------------
(* main's loop around a cycle.                                             *)

\* The handler giving up: it leaves the loop.
Except_break ==
    /\ pc = "except"
    /\ retry_attempt' = retry_attempt + 1
    /\ fails' = fails + 1
    /\ backoff_time' = exponential_backoff(BackoffBase, retry_attempt')
    /\ pc' = "return"
    /\ feed' = <<>>
    /\ i' = 0
    /\ update' = NoUpdate
    /\ sent' = NotSent
    /\ emitted' = <<>>
    /\ UNCHANGED <<args, bozo, seen_ids, first_run>>

\* The handler starting over with a new poller.
Except_new_poller ==
    /\ pc = "except"
    /\ retry_attempt' = retry_attempt + 1
    /\ fails' = fails + 1
    /\ backoff_time' = exponential_backoff(BackoffBase, retry_attempt')
    /\ pc' = "backoff"
    /\ seen_ids' = <<>>
    /\ feed' = <<>>
    /\ i' = 0
    /\ update' = NoUpdate
    /\ sent' = NotSent
    /\ emitted' = <<>>
    /\ UNCHANGED <<args, bozo, first_run>>

\* except Exception: retry_attempt += 1; backoff_time = exponential_backoff(30, retry_attempt)
Except ==
    /\ pc = "except"
    /\ retry_attempt' = retry_attempt + 1
    /\ fails' = fails + 1
    /\ backoff_time' = exponential_backoff(BackoffBase, retry_attempt')
    /\ pc' = "backoff"
    /\ feed' = <<>>
    /\ i' = 0
    /\ update' = NoUpdate
    /\ sent' = NotSent
    /\ emitted' = <<>>
    /\ UNCHANGED <<args, bozo, seen_ids, first_run>>

\* The handler without its `continue`: it goes on to time.sleep(args.interval).
SleepBackoff_no_continue ==
    /\ pc = "backoff"
    /\ backoff_time' = 0
    /\ pc' = "interval"
    /\ UNCHANGED <<args, bozo, seen_ids, retry_attempt, feed, i, first_run, update, cycleVars>>

\* time.sleep(backoff_time); continue
SleepBackoff ==
    /\ pc = "backoff"
    /\ backoff_time' = 0
    /\ pc' = "poll"
    /\ UNCHANGED <<args, bozo, seen_ids, retry_attempt, feed, i, first_run, update, cycleVars>>

\* time.sleep(args.interval)
SleepInterval ==
    /\ pc = "interval"
    /\ pc' = "poll"
    /\ UNCHANGED <<args, bozo, seen_ids, retry_attempt, backoff_time, feed, i, first_run, update,
                   cycleVars>>

-----------------------------------------------------------------------------
(* Observers: how the history variables across cycles follow a step of the *)
(* program.  They read the step and constrain nothing of it.               *)

IdsOf(f) == {f[k].id : k \in {n \in 1..Len(f) : HasAttr(f[n], "id")}}

\* g is f with entries added whose ids f does not list.
IsExtension(f, g) ==
    /\ Len(g) > Len(f)
    /\ \A k \in 1..Len(g) : HasAttr(g[k], "id")
    /\ SelectSeq(g, LAMBDA e : e.id \in IdsOf(f)) = f

\* The step is the fetch that starts a cycle, the yield of an Update, the
\* end of a cycle that ran through.
IsFetch == pc = "poll" /\ pc' = "gen"

IsYield == pc = "gen" /\ pc' = "email"

IsDone == pc = "gen" /\ pc' = "interval"

ObserveNotified ==
    notified' = [d \in Ids |->
        IF IsYield /\ d = feed[i].id THEN 1
        ELSE IF seen_ids' # seen_ids /\ notified[d] \in 1..maxlen THEN notified[d] + 1
        ELSE notified[d]]

ObservePrevFeed == prev_feed' = IF IsFetch THEN feed' ELSE prev_feed

ObserveSteady ==
    /\ polls' = IF IsFetch THEN (IF polls > 0 /\ feed' = prev_feed THEN 2 ELSE 1) ELSE polls
    /\ steady' = IF IsFetch THEN steady /\ feed' = prev_feed
                 ELSE IF IsDone THEN IdsOf(feed) \subseteq Range(seen_ids)
                 ELSE steady

ObserveBaseline ==
    baseline' = IF IsFetch /\ ~baseline.set /\ feed' # <<>>
                THEN [set |-> TRUE, ids |-> IdsOf(feed')]
                ELSE baseline

ObserveE2E ==
    /\ prev_feed' = IF IsDone /\ first_run THEN feed
                    ELSE IF IsFetch THEN <<>>
                    ELSE prev_feed
    /\ base_done' = IF IsDone THEN first_run /\ feed # <<>>
                    ELSE IF IsFetch THEN FALSE
                    ELSE base_done
    /\ ext' = IF IsFetch
              THEN (IF base_done /\ IsExtension(prev_feed, feed')
                    THEN [on |-> TRUE, base |-> IdsOf(prev_feed)]
                    ELSE NoExt)
              ELSE IF pc' \in {"gen", "email", "github"} THEN ext
              ELSE NoExt

ObserveEmpties ==
    empties' = IF IsDone /\ feed = <<>> /\ empties < MaxEmpties THEN empties + 1 ELSE empties

\* Both are kept while an exception propagates and dropped with the cycle.
ObserveLazy ==
    /\ recorded' = IF pc' \in {"poll", "interval", "backoff"} \/ IsFetch THEN <<>>
                   ELSE IF pc = "gen" /\ seen_ids' # seen_ids
                   THEN Append(recorded, seen_ids'[Len(seen_ids')])
                   ELSE recorded
    /\ dispatched' = IF pc' \in {"poll", "interval", "backoff"} \/ IsFetch THEN <<>>
                     ELSE IF pc = "github" /\ pc' = "gen"
                     THEN Append(dispatched, emitted[Len(emitted)])
                     ELSE dispatched

\* time.sleep(seconds) is the only thing that takes time.
ObserveWait ==
    waited' = IF IsDone THEN [cycle |-> "ok", slept |-> 0]
              ELSE IF pc = "except" THEN [cycle |-> "failed", slept |-> 0]
              ELSE IF pc = "backoff" THEN [waited EXCEPT !.slept = @ + backoff_time]
              ELSE IF pc = "interval" THEN [waited EXCEPT !.slept = @ + interval]
              ELSE waited

Observe(kind) ==
    CASE kind = "none" ->
            UNCHANGED <<notified, prev_feed, polls, steady, baseline, base_done, ext, empties,
                        recorded, dispatched, waited>>
      [] kind = "notified" ->
            ObserveNotified
            /\ UNCHANGED <<prev_feed, polls, steady, baseline, base_done, ext, empties,
                           recorded, dispatched, waited>>
      [] kind = "steady" ->
            ObservePrevFeed /\ ObserveSteady
            /\ UNCHANGED <<notified, baseline, base_done, ext, empties, recorded, dispatched, waited>>
      [] kind = "baseline" ->
            ObserveBaseline
            /\ UNCHANGED <<notified, prev_feed, polls, steady, base_done, ext, empties,
                           recorded, dispatched, waited>>
      [] kind = "e2e" ->
            ObserveE2E
            /\ UNCHANGED <<notified, polls, steady, baseline, empties, recorded, dispatched, waited>>
      [] kind = "empties" ->
            ObserveEmpties
            /\ UNCHANGED <<notified, prev_feed, polls, steady, baseline, base_done, ext,
                           recorded, dispatched, waited>>
      [] kind = "lazy" ->
            ObserveLazy
            /\ UNCHANGED <<notified, prev_feed, polls, steady, baseline, base_done, ext,
                           empties, waited>>
      [] kind = "wait" ->
            ObserveWait
            /\ UNCHANGED <<notified, prev_feed, polls, steady, baseline, base_done, ext,
                           empties, recorded, dispatched>>

\* A step of the program: seen_ids has capacity cap, the feed is drawn from
\* pool, the environment fails at most r cycles in a row, and the history
\* variables across cycles follow the observer `kind`.
Step(cap, pool, r, kind) ==
    \/ FetchFeed(pool, r) /\ Observe(kind)
    \/ FetchBozo /\ Observe(kind)
    \/ FetchRaise(r) /\ Observe(kind)
    \/ Classify(cap) /\ Observe(kind)
    \/ CycleDone /\ Observe(kind)
    \/ send_email_notification /\ Observe(kind)
    \/ SkipEmail /\ Observe(kind)
    \/ send_github_notification(r) /\ Observe(kind)
    \/ SkipGithub /\ Observe(kind)
    \/ Except /\ Observe(kind)
    \/ SleepBackoff /\ Observe(kind)
    \/ SleepInterval /\ Observe(kind)

\* The polling specification.
Next == Step(maxlen, Feeds, MaxRetry, "none")

Spec == Init /\ [][Next]_vars

\* The polling specification with the program always going on: no call
\* blocks for ever and every sleep ends.
SpecLive == Init /\ [][Next]_vars /\ WF_vars(Next)

\* The polling specification with one observer running.
NextNotified == Step(maxlen, Feeds, MaxRetry, "notified")

SpecNotified == Init /\ [][NextNotified]_vars

NextSteady == Step(maxlen, Feeds, MaxRetry, "steady")

SpecSteady == Init /\ [][NextSteady]_vars

NextEmpties == Step(maxlen, Feeds, MaxRetry, "empties")

SpecEmpties == Init /\ [][NextEmpties]_vars

\* The feeds of the baseline specification: those of the polling
\* specification, and feeds of two outdated entries with an entry without an
\* id between them.
BaselineFeeds ==
    LET ok == {e \in FullEntries : e.category = "outdated" /\ e.title = GoodTitle}
        broken == {<<a, x, c>> : a \in ok, x \in NoIdEntries, c \in ok}
    IN  [any |-> Feeds.any \cup broken, good |-> Feeds.good]

NextBaseline == Step(DequeMaxLen, BaselineFeeds, MaxRetry, "baseline")

SpecBaseline == Init /\ [][NextBaseline]_vars

\* The same feeds, with the scaled window and the observer of the cycle.
NextLazy == Step(maxlen, BaselineFeeds, MaxRetry, "lazy")

SpecLazy == Init /\ [][NextLazy]_vars

\* Feeds of entries with every attribute; the poll after a baseline cycle
\* may also return the baseline's feed with entries added, which is longer.
E2EFeeds ==
    LET short == FeedsOf(FullEntries, MaxFeedLen)
        longer == IF base_done
                  THEN {g \in FeedsOf(FullEntries, MaxE2ELen) : IsExtension(prev_feed, g)}
                  ELSE {}
    IN  [any |-> short \cup longer, good |-> short \cup longer]

NextE2E == Step(maxlen, E2EFeeds, MaxRetry, "e2e")

SpecE2E == Init /\ [][NextE2E]_vars

\* Long runs of failed cycles on small feeds.
NextBackoff == Step(maxlen, BackoffFeeds, MaxBackoffRetry, "none")

SpecBackoff == Init /\ [][NextBackoff]_vars

\* The same, with the observer of the waits.
NextWait == Step(maxlen, BackoffFeeds, MaxBackoffRetry, "wait")

SpecWait == Init /\ [][NextWait]_vars

\* The deque at the program's capacity.  Ids are numbered in the order of
\* their first observation; a poll returns one entry: the next new id, or
\* the oldest or the newest id seen_ids holds.
NextId == IF seen_ids = <<>> THEN 1 ELSE seen_ids[Len(seen_ids)] + 1

ObservableIds ==
    {k \in {NextId} \cup (IF seen_ids = <<>> THEN {} ELSE {Head(seen_ids), seen_ids[Len(seen_ids)]}) :
        k <= MaxRecorded}

DequeFeeds ==
    LET one == {<<[id |-> k, category |-> "outdated", title |-> GoodTitle, link |-> LinkOf(k)]>> :
                    k \in ObservableIds}
    IN  [any |-> one, good |-> one]

NextDeque == Step(DequeMaxLen, DequeFeeds, MaxRetry, "none")

SpecDeque == Init /\ [][NextDeque]_vars

-----------------------------------------------------------------------------
(* The claims.                                                             *)

IsOutdated(entry) ==
    /\ HasAttr(entry, "category") /\ entry.category = "outdated"
    /\ HasAttr(entry, "title") /\ title_re_match(entry.title) # <<>>
    /\ HasAttr(entry, "link")

\* C1. Never re-notified, as claimed: an entry is yielded only if no Update
\* was ever yielded for its id.
C1_NeverRenotified == [][IsYield => notified[feed[i].id] = 0]_vars

\* C1 as amended: an entry whose id was yielded before is yielded again only
\* after as many further ids were appended to seen_ids as the deque holds,
\* which evicted it.
C1_NotRenotifiedUntilEvicted == [][IsYield => notified[feed[i].id] \in {0, maxlen + 1}]_vars

\* A later cycle handled an outdated entry whose id was yielded before and
\* is still in seen_ids, and yielded nothing for it.
C1_Witness ==
    /\ pc = "gen" /\ i = 2 /\ emitted = <<>>
    /\ IsOutdated(feed[1])
    /\ notified[feed[1].id] \in 1..maxlen
    /\ feed[1].id \in Range(seen_ids)

\* C2. Steady state, as claimed: a poll that returns what the poll before it
\* returned yields nothing.
C2_SteadyState == polls = 2 => emitted = <<>>

\* C2 as amended: once a cycle on the feed ran to its end and left every id
\* of the feed in seen_ids, the polls that return the same feed yield
\* nothing.
C2_SteadyAfterCompleteCycle == steady => emitted = <<>>

\* A repeated poll of an unchanged feed handled two outdated entries and
\* yielded nothing.
C2_Witness ==
    /\ steady /\ polls = 2 /\ pc = "gen" /\ i = 3 /\ Len(feed) = 2
    /\ IsOutdated(feed[1]) /\ IsOutdated(feed[2]) /\ feed[1].id # feed[2].id
    /\ emitted = <<>>

\* C4. Baseline suppression: no entry is yielded whose id the first
\* non-empty feed listed.
C4_BaselineSuppression == [][IsYield => feed[i].id \notin baseline.ids]_vars

\* The entries among the first n of f that a cycle after a baseline on the
\* ids `base` is to yield: the first entry of each id not in base, when it
\* is outdated with a title of the expected format.
Expected(f, base, n) ==
    SelectSeq([k \in 1..n |-> k],
              LAMBDA k : /\ f[k].id \notin base
                         /\ \A j \in 1..(k - 1) : f[j].id # f[k].id
                         /\ IsOutdated(f[k]))

C7_WindowBound ==
    /\ Len(seen_ids) <= 500
    /\ seen_ids # <<>> =>
          LET m == seen_ids[Len(seen_ids)]
          IN  /\ Len(seen_ids) = Min(m, 500)
              /\ \A k \in 1..Len(seen_ids) : seen_ids[k] + Len(seen_ids) = m + k

\* 502 ids were recorded: the two oldest are gone and the window is full.
C7_Witness == Len(seen_ids) = 500 /\ seen_ids[1] = 3 /\ seen_ids[500] = 502

\* C8. Backoff sequence: the counter is the number of failed cycles since
\* the last successful one; the delay computed at the k-th of them is
\* min(30 * 2^k, 3600): 60, 120, 240, 480, 960 for k = 1..5, at most 3600;
\* a cycle that ran through leaves the counter at zero.
C8_BackoffSequence ==
    /\ retry_attempt = fails
    /\ pc = "backoff" =>
          /\ fails >= 1
          /\ backoff_time = Min(30 * Pow2(fails), 3600)
          /\ fails <= 5 => backoff_time = <<60, 120, 240, 480, 960>>[fails]
          /\ backoff_time <= 3600
    /\ pc = "interval" => retry_attempt = 0

\* The seventh failed cycle in a row waits the cap.
C8_Witness == pc = "backoff" /\ fails = 7 /\ backoff_time = 3600

\* C3. First-run suppression: a cycle that starts with seen_ids empty takes
\* first_run, and while it runs no entry is yielded, whatever its category
\* and title, and the id of every entry it handles is in seen_ids after the
\* entry was handled.
C3_FirstRunSuppression ==
    [][/\ (IsFetch /\ seen_ids = <<>>) => first_run'
       /\ (pc = "gen" /\ first_run /\ i <= Len(feed)) =>
            /\ ~IsYield
            /\ emitted' = <<>>
            /\ HasAttr(feed[i], "id") => feed[i].id \in Range(seen_ids')]_vars

\* A first cycle has handled two outdated entries of the expected title and
\* recorded both, and yielded none.
C3_Witness ==
    /\ pc = "gen" /\ first_run /\ i = 3 /\ Len(feed) = 2
    /\ IsOutdated(feed[1]) /\ IsOutdated(feed[2])
    /\ seen_ids = <<feed[1].id, feed[2].id>>
    /\ emitted = <<>>

\* C6. Category filter: every entry yielded in the running cycle has the
\* category "outdated", and the Update being dispatched is the one of the
\* entry yielded last.
C6_CategoryFilter ==
    /\ \A k \in Range(emitted) : HasAttr(feed[k], "category") /\ feed[k].category = "outdated"
    /\ pc \in {"email", "github"} =>
          /\ emitted # <<>>
          /\ update = make_update(feed[emitted[Len(emitted)]])

\* In a cycle after the baseline a resolved entry was recorded and passed
\* over, and the outdated entry after it yielded.
C6_Witness ==
    /\ pc = "email" /\ ~first_run /\ Len(feed) = 2
    /\ feed[1].category = "resolved" /\ feed[1].id # feed[2].id
    /\ seen_ids = <<feed[1].id, feed[2].id>>
    /\ emitted = <<2>>

\* C9. Failure isolation: an exception raised in a cycle is handled by
\* main: the handler can run, it counts the failure, computes the backoff
\* delay and goes to sleep, and from the exception to the next poll seen_ids
\* stays as the failing step left it.
C9_FailureIsolation ==
    /\ [](pc = "except" => ENABLED Except)
    /\ [](pc = "backoff" => ENABLED SleepBackoff)
    /\ [][/\ pc = "except" =>
                /\ pc' = "backoff"
                /\ seen_ids' = seen_ids
                /\ retry_attempt' = retry_attempt + 1
                /\ backoff_time' >= 60
          /\ pc = "backoff" => (pc' = "poll" /\ seen_ids' = seen_ids)]_vars

\* A first cycle recorded its first entry and failed on its second: the
\* exception is propagating and the recorded id is in seen_ids.
C9_Witness ==
    /\ pc = "except" /\ first_run /\ i = 2
    /\ seen_ids = <<feed[1].id>>

\* C10. Channel independence: with both channels configured, the email
\* sender always hands over to the github sender, whether it failed or not,
\* and the github sender runs and leaves what the email sender did.
C10_ChannelIndependence ==
    [][(args.email /\ args.github_repo) =>
          /\ pc = "email" => (pc' = "github" /\ sent'.email \in {"sent", "failed"})
          /\ pc = "github" =>
                /\ sent.email \in {"sent", "failed"}
                /\ sent'.github \in GithubResponses
                /\ sent'.email = sent.email]_vars

\* The mail relay failed and the issue was created all the same.
C10_Witness ==
    /\ args.email /\ args.github_repo
    /\ sent = [email |-> "failed", github |-> "201"]

\* The outcomes of requests.post that are a failure of the issue-tracker
\* channel: a status other than 201, a network-level failure.
GithubFailures == {"401", "403", "500", "RequestException"}

\* C11. Notification channel errors are absorbed: whatever the outcome of
\* the email sender, and when the issue-tracker sender meets a status other
\* than 201 or a network-level failure, the step goes on with the loop body
\* or the generator at the same entry of the same feed; seen_ids and the
\* failure counter stay as they were and no backoff delay is computed.
C11_ChannelErrorsAbsorbed ==
    [][/\ (pc = "email" /\ args.email) =>
            /\ pc' = "github"
            /\ seen_ids' = seen_ids /\ retry_attempt' = retry_attempt
            /\ backoff_time' = backoff_time /\ feed' = feed /\ i' = i
       /\ (pc = "github" /\ args.github_repo /\ sent'.github \in GithubFailures) =>
            /\ pc' = "gen"
            /\ seen_ids' = seen_ids /\ retry_attempt' = retry_attempt
            /\ backoff_time' = backoff_time /\ feed' = feed /\ i' = i]_vars

\* Both channels failed for the Update of the first entry, and the
\* generator is about to classify the second with the counter at zero.
C11_Witness ==
    /\ pc = "gen" /\ i = 2 /\ Len(feed) = 2 /\ emitted = <<1>>
    /\ sent = [email |-> "failed", github |-> "RequestException"]
    /\ retry_attempt = 0 /\ backoff_time = 0

\* C12. Fetch error escalation: a cycle whose fetch could not reach or
\* parse the feed is a failed cycle: it does not end as a successful one,
\* which resets the failure counter and sleeps the polling interval; it
\* goes through main's handler, which counts it and sleeps the backoff
\* delay.
C12_FetchErrorEscalation ==
    [][bozo => (pc' = "except" /\ retry_attempt' = retry_attempt)]_vars

\* The generator is at a new entry of the category "outdated" whose title
\* is not of the expected format, in a cycle after the baseline.
AtBadTitle ==
    /\ pc = "gen" /\ i <= Len(feed) /\ ~first_run
    /\ HasAttr(feed[i], "id") /\ feed[i].id \notin Range(seen_ids)
    /\ HasAttr(feed[i], "category") /\ feed[i].category = "outdated"
    /\ HasAttr(feed[i], "title") /\ title_re_match(feed[i].title) = <<>>

\* C13. Parse failure is local: handling a new outdated entry whose title
\* is not of the expected format yields nothing and raises nothing; the
\* generator goes on with the next entry of the same feed, and the failure
\* counter and the backoff delay are untouched.
C13_ParseFailureLocal ==
    [][AtBadTitle =>
          /\ pc' = "gen" /\ i' = i + 1 /\ feed' = feed
          /\ emitted' = emitted /\ update' = update
          /\ retry_attempt' = retry_attempt /\ backoff_time' = backoff_time]_vars

\* After a new outdated entry with a title of another format, the entry
\* after it was classified and yielded in the same cycle.
C13_Witness ==
    /\ pc = "email" /\ ~first_run /\ Len(feed) = 2 /\ emitted = <<2>>
    /\ feed[1].category = "outdated" /\ feed[1].title = BadTitle
    /\ seen_ids = <<feed[1].id, feed[2].id>>
    /\ retry_attempt = 0

\* C14. Empty feed keeps the baseline pending: a cycle on a feed without
\* entries ends without a yield and leaves seen_ids as it was; a cycle that
\* starts with seen_ids empty, after any number of such cycles, takes
\* first_run, and a cycle with first_run yields nothing.
C14_EmptyFeedKeepsBaseline ==
    [][/\ (pc = "gen" /\ feed = <<>>) =>
            (pc' = "interval" /\ seen_ids' = seen_ids /\ emitted = <<>>)
       /\ (IsFetch /\ seen_ids = <<>>) => first_run'
       /\ (pc = "gen" /\ first_run) => (~IsYield /\ emitted' = <<>>)]_vars

\* After two cycles on an empty feed the first cycle on a feed with entries
\* ran as the baseline: it recorded two outdated entries and yielded none.
C14_Witness ==
    /\ empties = 2 /\ first_run /\ pc = "gen" /\ i = 3 /\ Len(feed) = 2
    /\ IsOutdated(feed[1]) /\ IsOutdated(feed[2])
    /\ seen_ids = <<feed[1].id, feed[2].id>> /\ emitted = <<>>

\* C15. Record regardless of filtering: handling an entry whose id is not
\* in seen_ids appends the id, whatever becomes of the entry (baseline,
\* another category, a title of another format, an error, a yield);
\* handling an entry whose id is in seen_ids passes it over: nothing is
\* recorded or yielded, whatever its category and title are now.
C15_RecordRegardless ==
    [][(pc = "gen" /\ i <= Len(feed) /\ HasAttr(feed[i], "id")) =>
          IF feed[i].id \notin Range(seen_ids)
          THEN seen_ids' # <<>> /\ seen_ids'[Len(seen_ids')] = feed[i].id
          ELSE /\ pc' = "gen" /\ i' = i + 1
               /\ seen_ids' = seen_ids /\ emitted' = emitted]_vars

\* An id recorded after the baseline and never yielded (its entry was
\* filtered or failed) is listed as an outdated entry of the expected title, and
\* passed over.
C15_Witness ==
    /\ pc = "gen" /\ ~first_run /\ i = 2 /\ Len(feed) = 1 /\ emitted = <<>>
    /\ IsOutdated(feed[1])
    /\ Len(seen_ids) = 2 /\ seen_ids[2] = feed[1].id
    /\ notified[seen_ids[1]] > 0 /\ notified[seen_ids[2]] = 0

\* The Update of the entry yielded last is with the loop body of main, or
\* was when a sender raised.
InFlight == pc \in {"email", "github"} \/ (pc = "except" /\ sent.github = "Exception")

\* The index of the entry the cycle failed at: the entry whose Update a
\* sender raised on, else the entry the generator raised on.
FailedAt == IF sent.github = "Exception" THEN i - 1 ELSE i

\* C16. Lazy production with partial progress: at any point of a cycle
\* every entry yielded so far, but the one in flight, has been through the
\* loop body of main; and when the cycle fails at its k-th entry, every new
\* outdated entry of the expected title before the k-th was yielded and
\* dispatched, and only ids of the first k entries were recorded.
C16_LazyPartialProgress ==
    /\ Range(dispatched) =
          Range(emitted) \ (IF InFlight /\ emitted # <<>> THEN {emitted[Len(emitted)]} ELSE {})
    /\ (pc = "except" /\ i >= 1) =>
          /\ \A j \in 1..(FailedAt - 1) :
                (/\ ~first_run /\ IsOutdated(feed[j])
                 /\ feed[j].id \in Range(recorded)
                 /\ \A n \in 1..(j - 1) : feed[n].id # feed[j].id)
                => (j \in Range(emitted) /\ j \in Range(dispatched))
          /\ Range(recorded) \subseteq
                {feed[j].id : j \in {n \in 1..FailedAt : HasAttr(feed[n], "id")}}

\* The cycle failed at its second entry: the Update of the first was
\* dispatched, and the third, a new id, was not recorded.
C16_Witness ==
    /\ pc = "except" /\ i = 2 /\ Len(feed) = 3
    /\ emitted = <<1>> /\ dispatched = <<1>>
    /\ recorded = <<feed[1].id>>
    /\ feed[3].id \notin Range(seen_ids)

\* C17. Malformed feed entries are rejected gracefully: handling an entry,
\* whatever attributes it lacks, raises nothing: the generator goes on with
\* the entries after it, and the cycle does not fail because of it.
C17_MalformedRejectedGracefully ==
    [][(pc = "gen" /\ i <= Len(feed)) => pc' # "except"]_vars

\* C18. Observation order and FIFO eviction: seen_ids never holds an id
\* twice; a step changes it only by appending the id of the entry being
\* handled at the newest end, dropping the oldest id when it is full and
\* keeping the order of the others; handling an entry whose id it holds
\* leaves it as it is.
C18_ObservationOrder ==
    /\ [](\A j, k \in 1..Len(seen_ids) : seen_ids[j] = seen_ids[k] => j = k)
    /\ [](Len(seen_ids) <= maxlen)
    /\ [][\/ seen_ids' = seen_ids
          \/ /\ pc = "gen" /\ i <= Len(feed) /\ HasAttr(feed[i], "id")
             /\ feed[i].id \notin Range(seen_ids)
             /\ seen_ids' = Append(IF Len(seen_ids) = maxlen THEN Tail(seen_ids) ELSE seen_ids,
                                   feed[i].id)]_vars
    /\ [][(pc = "gen" /\ i <= Len(feed) /\ HasAttr(feed[i], "id")
           /\ feed[i].id \in Range(seen_ids)) => seen_ids' = seen_ids]_vars

\* The window was full with the id of the first entry as its oldest; the
\* cycle passed over the first entry and recorded the second, which evicted
\* the id of the first although it was observed last.
C18_Witness ==
    /\ pc \in {"gen", "email"} /\ i = 3 /\ Len(feed) = 2 /\ ~first_run
    /\ Len(seen_ids) = maxlen
    /\ seen_ids[Len(seen_ids)] = feed[2].id
    /\ feed[1].id \notin Range(seen_ids) /\ feed[1].id # feed[2].id
    /\ emitted \in {<<>>, <<2>>}

\* C19. Wait selection between cycles: when a cycle starts, main has slept,
\* since the cycle before it ended, the polling interval and nothing else
\* if that cycle ran through, and the backoff delay of the failure count
\* and nothing else if it failed; before the first cycle it has not slept.
C19_WaitSelection ==
    pc = "poll" =>
        CASE waited.cycle = "none" -> waited.slept = 0
          [] waited.cycle = "ok" -> waited.slept = 300 /\ fails = 0
          [] waited.cycle = "failed" ->
                /\ fails >= 1
                /\ waited.slept = Min(30 * Pow2(fails), 3600)

\* After the third failed cycle in a row main slept 240 seconds and is at
\* the top of the loop.
C19_Witness ==
    /\ pc = "poll" /\ fails = 3
    /\ waited = [cycle |-> "failed", slept |-> 240]

\* C20. No termination: in every state the program can take a step, and,
\* the program going on, it is at the top of the loop again and again: a
\* cycle, ended or failed, is followed by the next poll.
C20_NoTermination ==
    /\ [](ENABLED Next)
    /\ []<>(pc = "poll")
    /\ (pc \in {"except", "backoff", "interval"}) ~> (pc = "poll")

\* Two cycles failed in a row and the loop is at its top again.
C20_Witness == pc = "poll" /\ fails = 2 /\ retry_attempt = 2

=============================================================================
